---------------------------- MODULE Spec2Model ----------------------------
(***************************************************************************)
(* hrekt (src/main.rs): a rate limited producer (send_url) feeds Jobs over *)
(* an spmc channel to `concurrency` run_detector tasks.  Each task         *)
(* resolves the job's host for every port token, then probes every entry   *)
(* of resolved_domains over HTTP and prints one line per surviving entry.  *)
(*                                                                         *)
(* Strings are sequences of tokens: "" is << >>, concatenation is \o.      *)
(***************************************************************************)
EXTENDS Integers, Sequences, FiniteSets, TLC

(***************************************************************************)
(* Bounds of the model.                                                    *)
(***************************************************************************)
MaxHosts == 2
MaxConc == 2
MaxThreads == 2
MaxTime == 2

(***************************************************************************)
(* Strings.                                                                *)
(***************************************************************************)
EmptyStr == << >>

Digits == {"0", "1", "2", "3", "4", "5", "6", "7", "8", "9"}

DigitVal(d) ==
    CASE d = "0" -> 0 [] d = "1" -> 1 [] d = "2" -> 2 [] d = "3" -> 3
      [] d = "4" -> 4 [] d = "5" -> 5 [] d = "6" -> 6 [] d = "7" -> 7
      [] d = "8" -> 8 [] d = "9" -> 9

\* s is a decimal number of one to five digits; its value, or -1.
RECURSIVE DecValue(_, _)
DecValue(s, acc) ==
    IF s = << >> THEN acc
    ELSE IF Head(s) \notin Digits THEN 0 - 1
    ELSE DecValue(Tail(s), acc * 10 + DigitVal(Head(s)))

\* str::parse::<u16>: a non-empty run of digits whose value fits 16 bits.
ParsesAsU16(s) ==
    /\ s # << >>
    /\ Len(s) <= 5
    /\ DecValue(s, 0) >= 0
    /\ DecValue(s, 0) <= 65535

\* The digits of u32::MAX.
U32MaxDigits == <<"4", "2", "9", "4", "9", "6", "7", "2", "9", "5">>

RECURSIVE StripZeros(_)
StripZeros(d) ==
    IF Len(d) > 1 /\ Head(d) = "0" THEN StripZeros(Tail(d)) ELSE d

\* a <= b for two digit strings of the same length.
RECURSIVE DigitsLeq(_, _)
DigitsLeq(a, b) ==
    IF a = << >> THEN TRUE
    ELSE IF DigitVal(Head(a)) < DigitVal(Head(b)) THEN TRUE
    ELSE IF DigitVal(Head(a)) > DigitVal(Head(b)) THEN FALSE
    ELSE DigitsLeq(Tail(a), Tail(b))

\* str::parse::<u32>: an optional "+", then a non-empty run of digits whose
\* value fits 32 bits.
ParsesAsU32(s) ==
    LET d == IF s # << >> /\ Head(s) = "+" THEN Tail(s) ELSE s
        z == StripZeros(d)
    IN  /\ d # << >>
        /\ \A i \in DOMAIN d : d[i] \in Digits
        /\ \/ Len(z) < Len(U32MaxDigits)
           \/ Len(z) = Len(U32MaxDigits) /\ DigitsLeq(z, U32MaxDigits)

\* The u32 a string that parses stands for.
U32Value(s) ==
    DecValue(IF s # << >> /\ Head(s) = "+" THEN Tail(s) ELSE s, 0)

\* The longest prefix of s without the token c.
RECURSIVE TakeUntil(_, _)
TakeUntil(s, c) ==
    IF s = << >> \/ Head(s) = c THEN << >>
    ELSE <<Head(s)>> \o TakeUntil(Tail(s), c)

\* What follows the first c in s, or "" when there is no c.
RECURSIVE DropThrough(_, _)
DropThrough(s, c) ==
    IF s = << >> THEN << >>
    ELSE IF Head(s) = c THEN Tail(s)
    ELSE DropThrough(Tail(s), c)

RECURSIVE HasToken(_, _)
HasToken(s, c) ==
    IF s = << >> THEN FALSE
    ELSE Head(s) = c \/ HasToken(Tail(s), c)

\* str::split(","): the pieces between the commas; "" gives one empty piece.
RECURSIVE Split(_)
Split(s) ==
    IF HasToken(s, ",")
    THEN <<TakeUntil(s, ",")>> \o Split(DropThrough(s, ","))
    ELSE <<s>>

\* pat occurs in text as a run of consecutive tokens.
IsSubstring(pat, text) ==
    \E i \in 0..(Len(text) - Len(pat)) :
        \A k \in 1..Len(pat) : text[i + k] = pat[k]

(***************************************************************************)
(* reqwest::Url::parse, as far as the probe depends on it: a URL needs one *)
(* of the two schemes, then (any leading slashes are skipped for these     *)
(* schemes) a non-empty host, then optionally ":" and a 16-bit port.       *)
(***************************************************************************)
Schemes == {"http://", "https://"}

RECURSIVE SkipSlashes(_)
SkipSlashes(s) ==
    IF s # << >> /\ Head(s) = "/" THEN SkipSlashes(Tail(s)) ELSE s

UrlAuthority(u) == TakeUntil(SkipSlashes(Tail(u)), "/")

UrlHost(u) == TakeUntil(UrlAuthority(u), ":")

UrlPort(u) == DropThrough(UrlAuthority(u), ":")

UrlParses(u) ==
    /\ u # << >>
    /\ Head(u) \in Schemes
    /\ UrlHost(u) # << >>
    /\ (UrlPort(u) = << >> \/ ParsesAsU16(UrlPort(u)))


(***************************************************************************)
(* Inputs: host lines, option values, and what the network can answer.     *)
(***************************************************************************)
ExampleHost == <<"example.com">>

HostLines == {ExampleHost, EmptyStr}

Ports80 == <<"8", "0">>
Ports443 == <<"4", "4", "3">>
Ports8443 == <<"8", "4", "4", "3">>
PortsDefault == Ports80 \o <<",">> \o Ports443

PortLists ==
    {PortsDefault, Ports80, Ports443, Ports8443, EmptyStr,
     <<" ">> \o Ports80, Ports80 \o <<",">> \o Ports8443}

AdminPath == <<"/", "admin">>

Paths == {EmptyStr, AdminPath}

BadPattern == <<"(">>

BodyPatterns == {EmptyStr, <<"Example">>, BadPattern}

HeaderPatterns == {EmptyStr, <<"x-powered-by", ":", "PHP">>, BadPattern}

\* A header value that is not valid UTF-8 (HeaderValue::to_str fails on it).
NonUtf8 == <<"\\xff">>

HeadersNone == << >>

HeadersFull ==
    << [name |-> "x-powered-by", value |-> <<"PHP", "/7.4">>],
       [name |-> "server", value |-> <<"nginx">>],
       [name |-> "content-type", value |-> <<"text/html">>],
       [name |-> "content-length", value |-> <<"5">>] >>

HeadersBinary ==
    << [name |-> "content-type", value |-> NonUtf8],
       [name |-> "server", value |-> NonUtf8] >>

HeaderSets == {HeadersNone, HeadersFull, HeadersBinary}

\* reqwest's StatusCode holds 100..999; these cover the cases of the code.
Statuses == {200, 400, 404, 600}

\* What client.execute(..).await returns: Err, or a response head.
HttpErr == [ok |-> FALSE, status |-> 0, headers |-> HeadersNone]

HttpOk(st, hs) == [ok |-> TRUE, status |-> st, headers |-> hs]

\* The ends of the five ranges of lines 700-764, and what lies beyond them.
BucketStatuses ==
    {100, 199, 200, 201, 299, 300, 399, 400, 404, 499, 500, 503, 599, 600, 999}

\* Answers that differ in their status, and answers that differ in their
\* headers.
StatusResponses == {HttpErr} \cup {HttpOk(st, HeadersNone) : st \in Statuses}

HeaderResponses == {HttpErr} \cup {HttpOk(200, hs) : hs \in HeaderSets}

\* The answers the pipeline specification draws from.
FewResponses == {HttpErr, HttpOk(200, HeadersNone)}

BodyExample == <<"<html>", "<title>", "Example", "</title>", "</html>">>
BodyPlain == <<"hello">>
BodyTwoTitles == <<"<title>", "</title>", "\n", "<title>", "Later", "</title>">>

Bodies == {BodyExample, BodyPlain, BodyTwoTitles}

\* What resp.text().await returns.
TextErr == [ok |-> FALSE, body |-> EmptyStr]

TextOk(b) == [ok |-> TRUE, body |-> b]

Texts == {TextErr} \cup {TextOk(b) : b \in Bodies}

FewTexts == {TextErr, TextOk(BodyPlain)}

\* What wappalyzer::scan(..).await.result is.
ScanErr == [ok |-> FALSE, techs |-> << >>]

ScanOk(ts) == [ok |-> TRUE, techs |-> ts]

Scans == {ScanErr, ScanOk(<< >>), ScanOk(<<"PHP", "nginx">>)}

\* What net::lookup_host(..).await returns for a well-formed host:port.
DnsErr == [ok |-> FALSE, addrs |-> << >>]

DnsOk(as) == [ok |-> TRUE, addrs |-> as]

DnsAnswers == {DnsErr, DnsOk(<<"v6">>), DnsOk(<<"v4">>), DnsOk(<<"v6", "v4">>)}

\* The answers the pipeline specification draws from.
FewDnsAnswers == {DnsErr, DnsOk(<<"v6", "v4">>)}

\* lookup_host parses "host:port" first: a port that is no u16 is an error,
\* and so is an empty host name.
LookupOutcomes(host, port, answers) ==
    IF ParsesAsU16(port) /\ host # EmptyStr THEN answers ELSE {DnsErr}

(***************************************************************************)
(* Job (lines 15-28) and the job send_url builds (lines 362-374).          *)
(***************************************************************************)
MakeJob(id, host, c) ==
    [id |-> id,
     host |-> host,
     body_regex |-> c.body_regex,
     header_regex |-> c.header_regex,
     ports |-> c.ports,
     display_title |-> c.display_title,
     display_tech |-> c.display_tech,
     path |-> c.path,
     status_codes |-> c.status_codes,
     content_length |-> c.content_length,
     content_type |-> c.content_type,
     server |-> c.server]

NoJob ==
    [id |-> 0, host |-> EmptyStr, body_regex |-> EmptyStr,
     header_regex |-> EmptyStr, ports |-> EmptyStr, display_title |-> FALSE,
     display_tech |-> FALSE, path |-> EmptyStr, status_codes |-> FALSE,
     content_length |-> FALSE, content_type |-> FALSE, server |-> FALSE]

(***************************************************************************)
(* Resolver: run_detector lines 436-458 and http_resolver lines 1075-1093. *)
(***************************************************************************)
\* The scheme of the sub-th lookup made for one port token.
AttemptSchema(port, sub) ==
    IF port = Ports80 THEN "http://"
    ELSE IF port = Ports443 THEN "https://"
    ELSE IF sub = 1 THEN "https://" ELSE "http://"

\* Both schemes for every port.
AttemptCountAlwaysTwo(port) == 1 + 1

\* The number of lookups made for one port token.
AttemptCount(port) ==
    IF port = Ports80 THEN 1 ELSE IF port = Ports443 THEN 1 ELSE 2

HasIpv4(addrs) == \E i \in 1..Len(addrs) : addrs[i] = "v4"

http_resolver(host, schema, port, lookup) ==
    IF ~lookup.ok THEN EmptyStr
    ELSE IF HasIpv4(lookup.addrs) THEN <<schema>> \o host \o <<":">> \o port
    ELSE <<schema>>

(***************************************************************************)
(* Content analysis.                                                       *)
(***************************************************************************)
\* regex::Regex::new on a caller pattern: an unclosed group does not compile.
RegexCompiles(pat) == ~HasToken(pat, "(")

\* Regex::is_match for the literal patterns of this model.
RegexIsMatch(pat, text) == IsSubstring(pat, text)

\* headers().get(name): the first value under that name, "absent" if none.
RECURSIVE HeaderGet(_, _)
HeaderGet(headers, name) ==
    IF headers = << >> THEN [present |-> FALSE, value |-> EmptyStr]
    ELSE IF Head(headers).name = name
         THEN [present |-> TRUE, value |-> Head(headers).value]
    ELSE HeaderGet(Tail(headers), name)

\* HeaderValue::to_str succeeds on visible ASCII only.
ToStrOk(value) == value # NonUtf8

\* Response::content_length(): the declared body size, if any.
ContentLengthOf(r) == HeaderGet(r.headers, "content-length")

\* The index of the last c in s, 0 when there is none.
LastIndex(s, c) ==
    IF \E i \in 1..Len(s) : s[i] = c
    THEN CHOOSE i \in 1..Len(s) :
            s[i] = c /\ \A j \in (i + 1)..Len(s) : s[j] # c
    ELSE 0

FirstIndex(s, c) ==
    IF \E i \in 1..Len(s) : s[i] = c
    THEN CHOOSE i \in 1..Len(s) : s[i] = c /\ \A j \in 1..(i - 1) : s[j] # c
    ELSE 0

\* The lines of a text ("." does not match a line end).
RECURSIVE Lines(_)
Lines(s) ==
    IF HasToken(s, "\n")
    THEN <<TakeUntil(s, "\n")>> \o Lines(DropThrough(s, "\n"))
    ELSE <<s>>

\* captures_iter of <title>(.*)</title>: per line, from the first <title>
\* to the last </title> behind it (".*" is greedy); group 1 of each match.
LineHasTitle(l) ==
    /\ FirstIndex(l, "<title>") > 0
    /\ LastIndex(l, "</title>") > FirstIndex(l, "<title>")

LineCapture(l) ==
    SubSeq(l, FirstIndex(l, "<title>") + 1, LastIndex(l, "</title>") - 1)

TitleCaptures(body) ==
    LET ls == Lines(body)
        RECURSIVE Caps(_)
        Caps(i) ==
            IF i > Len(ls) THEN << >>
            ELSE IF LineHasTitle(ls[i]) THEN <<LineCapture(ls[i])>> \o Caps(i + 1)
            ELSE Caps(i + 1)
    IN  Caps(1)

\* Lines 634-651: the first capture that is not empty, in brackets.
RECURSIVE FirstNonEmpty(_)
FirstNonEmpty(caps) ==
    IF caps = << >> THEN EmptyStr
    ELSE IF Head(caps) # EmptyStr THEN <<"[">> \o Head(caps) \o <<"]">>
    ELSE FirstNonEmpty(Tail(caps))

\* A title that is extracted whether or not it was asked for.
ExtractTitleAlways(job, body) == FirstNonEmpty(TitleCaptures(body))

ExtractTitle(job, body) ==
    IF job.display_title THEN FirstNonEmpty(TitleCaptures(body)) ELSE EmptyStr

\* Lines 672-685: the names joined by commas, in brackets; "" for none.
RECURSIVE TechNames(_)
TechNames(techs) ==
    IF techs = << >> THEN << >>
    ELSE <<Head(techs), ",">> \o TechNames(Tail(techs))

TechStr(techs) ==
    LET tech_name == TechNames(techs)
    IN  IF tech_name # EmptyStr
        THEN <<"[">> \o SubSeq(tech_name, 1, Len(tech_name) - 1) \o <<"]">>
        ELSE EmptyStr

(***************************************************************************)
(* One run_detector task (lines 385-1070).  A task record holds the place  *)
(* it is suspended at (pc) and its locals; a step record m holds the task  *)
(* (m.w), its slot (m.id) and the two logs the step appends to: m.reqs,    *)
(* the requests handed to client.execute and the body reads and scans      *)
(* awaited, each with its answer, and m.out, the lines printed.            *)
(***************************************************************************)
IdleTask(pc) ==
    [pc |-> pc, job |-> NoJob, ports_array |-> << >>, pi |-> 0, sub |-> 0,
     resolved_domains |-> << >>, di |-> 0, resp |-> HttpErr,
     response |-> HttpErr, content_length |-> EmptyStr,
     content_type |-> EmptyStr, server |-> EmptyStr, body |-> EmptyStr]

\* Line 461: the entry of resolved_domains the loop is at.
Domain(t) == t.resolved_domains[t.di]

\* Lines 464 and 781: the URL every request of the entry is built from.
TargetUrl(t) ==
    IF t.job.path # EmptyStr THEN Domain(t) \o t.job.path ELSE Domain(t)

RECURSIVE StartCandidate(_)

\* `continue` of the loop of line 461 (and the end of its body): the locals
\* of the entry go out of scope and the loop moves to the next entry.
Continue(m) ==
    StartCandidate([m EXCEPT !.w.di = @ + 1,
                             !.w.resp = HttpErr,
                             !.w.response = HttpErr,
                             !.w.content_length = EmptyStr,
                             !.w.content_type = EmptyStr,
                             !.w.server = EmptyStr,
                             !.w.body = EmptyStr])

\* The task suspends at an await; the log gets an entry for its answer.
Await(m, kind) ==
    [m EXCEPT !.w.pc = kind,
              !.reqs = Append(@, [w |-> m.id, job |-> m.w.job.id,
                                  di |-> m.w.di, kind |-> kind,
                                  url |-> TargetUrl(m.w), done |-> FALSE,
                                  answer |-> HttpErr])]

\* The await the task is suspended at returns r.
Answered(m, r) ==
    [m EXCEPT !.reqs[Len(m.reqs)].done = TRUE,
              !.reqs[Len(m.reqs)].answer = r]

\* client.get(url).build() and client.execute(..): `continue` when the URL
\* does not parse, else the request is sent and the task awaits its answer.
Issue(m, kind) ==
    IF ~UrlParses(TargetUrl(m.w)) THEN Continue(m) ELSE Await(m, kind)

\* A chain whose second range takes in the first status of the third.
PrintedLinesOverlapping(m, tech_str, title) ==
    LET t == m.w
        sc == t.response.status
        status_code == <<"[", sc, "]">>
        Line(st, style) ==
            [url |-> TargetUrl(t), title |-> title, status |-> st,
             style |-> style, tech |-> tech_str,
             content_type |-> t.content_type,
             content_length |-> t.content_length, server |-> t.server,
             src |-> [w |-> m.id, job |-> t.job.id, di |-> t.di]]
    IN  IF t.job.status_codes
        THEN (IF sc >= 100 /\ sc < 200 THEN <<Line(status_code, "white")>> ELSE << >>)
             \o (IF sc >= 200 /\ sc <= 300 THEN <<Line(status_code, "green")>> ELSE << >>)
             \o (IF sc >= 300 /\ sc < 400 THEN <<Line(status_code, "blue")>> ELSE << >>)
             \o (IF sc >= 400 /\ sc < 500 THEN <<Line(status_code, "magenta")>> ELSE << >>)
             \o (IF sc >= 500 /\ sc < 600 THEN <<Line(status_code, "red")>> ELSE << >>)
        ELSE <<Line(EmptyStr, IF t.job.path # EmptyStr THEN "red" ELSE "white")>>

\* The status field and its style, lines 694-777 and 983-1066: one println
\* per branch of the chain whose condition holds.
PrintedLines(m, tech_str, title) ==
    LET t == m.w
        sc == t.response.status
        status_code == <<"[", sc, "]">>
        Line(st, style) ==
            [url |-> TargetUrl(t), title |-> title, status |-> st,
             style |-> style, tech |-> tech_str,
             content_type |-> t.content_type,
             content_length |-> t.content_length, server |-> t.server,
             src |-> [w |-> m.id, job |-> t.job.id, di |-> t.di]]
    IN  IF t.job.status_codes
        THEN (IF sc >= 100 /\ sc < 200 THEN <<Line(status_code, "white")>> ELSE << >>)
             \o (IF sc >= 200 /\ sc < 300 THEN <<Line(status_code, "green")>> ELSE << >>)
             \o (IF sc >= 300 /\ sc < 400 THEN <<Line(status_code, "blue")>> ELSE << >>)
             \o (IF sc >= 400 /\ sc < 500 THEN <<Line(status_code, "magenta")>> ELSE << >>)
             \o (IF sc >= 500 /\ sc < 600 THEN <<Line(status_code, "red")>> ELSE << >>)
        ELSE <<Line(EmptyStr, IF t.job.path # EmptyStr THEN "red" ELSE "white")>>

\* The arguments of println!("{} {} {} {} {} {} {}", ..) in the order they
\* are passed (lines 702-711 and the eleven other calls): the printed line
\* is these seven strings with one space between neighbours.
Format(l) ==
    <<l.url, l.title, l.status, l.tech, l.content_type, l.content_length,
      l.server>>

\* Lines 688-777 and 977-1066: the body regex gate, then the print.
Emit(m, tech_str) ==
    LET t == m.w
    IN  IF t.job.body_regex # EmptyStr /\ ~RegexIsMatch(t.job.body_regex, t.body)
        THEN Continue(m)
        ELSE Continue([m EXCEPT !.out =
                 @ \o PrintedLines(m, tech_str, ExtractTitle(t.job, t.body))])

\* A failed scan taken for a scan that found nothing.
AfterScanErrorAsEmpty(m, scan) ==
    IF ~scan.ok THEN Emit(m, EmptyStr) ELSE Emit(m, TechStr(scan.techs))

\* A failed scan that ends the task.
AfterScanAborts(m, scan) ==
    IF ~scan.ok THEN [m EXCEPT !.w = IdleTask("done")]
    ELSE Emit(m, TechStr(scan.techs))

\* wappalyzer::scan returned (lines 667-685 and 956-974).
AfterScan(m, scan) ==
    IF ~scan.ok THEN Continue(m) ELSE Emit(m, TechStr(scan.techs))

\* resp.text() returned (lines 627-666 and 919-955): the title, then the
\* body pattern is compiled and the URL parsed, then the scan if asked for.
AfterText(m, text) ==
    IF ~text.ok THEN Continue(m)
    ELSE IF ~RegexCompiles(m.w.job.body_regex) THEN Continue(m)
    ELSE IF ~UrlParses(TargetUrl(m.w)) THEN Continue(m)
    ELSE IF m.w.job.display_tech
         THEN Await([m EXCEPT !.w.body = text.body], "scan")
    ELSE Emit([m EXCEPT !.w.body = text.body], EmptyStr)

\* The loop over the headers of resp, lines 605-625 and 900-917: each of
\* its `continue`s moves to the next header; "next" when the loop is
\* through, "skip" if it had left the entry.
RECURSIVE HeaderLoop(_, _)
HeaderLoop(header_regex, headers) ==
    IF headers = << >> THEN "next"
    ELSE LET v == Head(headers).value
             header_value == IF ToStrOk(v) THEN v ELSE EmptyStr
             header_str == <<Head(headers).name, ":">> \o header_value
         IN  IF ~RegexCompiles(header_regex)
             THEN HeaderLoop(header_regex, Tail(headers))
             ELSE IF ~RegexIsMatch(header_regex, header_str)
             THEN HeaderLoop(header_regex, Tail(headers))
             ELSE HeaderLoop(header_regex, Tail(headers))

\* Lines 604-627 and 900-919: the header pattern, then resp.text() is awaited.
HeadersThenText(m) ==
    IF m.w.job.header_regex # EmptyStr
       /\ HeaderLoop(m.w.job.header_regex, m.w.resp.headers) = "skip"
    THEN Continue(m)
    ELSE Await(m, "text")

\* After the metadata requests: lines 590 (path) and 900 (no path).
AfterMetadata(m) ==
    IF m.w.job.path # EmptyStr THEN Issue(m, "get_response")
    ELSE HeadersThenText(m)

\* Lines 559-561 and 870-871.
ToServer(m) ==
    IF m.w.job.server THEN Issue(m, "get_server") ELSE AfterMetadata(m)

\* Lines 528-530 and 839-841.
ToContentType(m) ==
    IF m.w.job.content_type THEN Issue(m, "get_ct") ELSE ToServer(m)

\* Lines 502-504 and 813-815.
ToContentLength(m) ==
    IF m.w.job.content_length THEN Issue(m, "get_cl") ELSE ToContentType(m)

\* The answer to the Server request, lines 570-588 and 880-898.  With a path
\* the test of line 583 reads `server`, which is still empty.
AfterServer(m, r) ==
    IF ~r.ok THEN Continue(m)
    ELSE LET h == HeaderGet(r.headers, "server")
         IN  IF h.present /\ ~ToStrOk(h.value) THEN Continue(m)
             ELSE LET s == IF h.present THEN h.value ELSE EmptyStr
                      fill == IF m.w.job.path # EmptyStr
                              THEN m.w.server # EmptyStr
                              ELSE s # EmptyStr
                  IN  AfterMetadata(
                        IF fill
                        THEN [m EXCEPT !.w.server = <<"[">> \o s \o <<"]">>]
                        ELSE m)

\* The answer to the Content-Type request, lines 539-557 and 850-869.
AfterContentType(m, r) ==
    IF ~r.ok THEN Continue(m)
    ELSE LET h == HeaderGet(r.headers, "content-type")
         IN  IF h.present /\ ~ToStrOk(h.value) THEN Continue(m)
             ELSE LET ct == IF h.present THEN h.value ELSE EmptyStr
                  IN  ToServer(
                        IF ct # EmptyStr
                        THEN [m EXCEPT !.w.content_type = <<"[">> \o ct \o <<"]">>]
                        ELSE m)

\* The answer to the Content-Length request, lines 513-526 and 824-837.
AfterContentLength(m, r) ==
    IF ~r.ok THEN Continue(m)
    ELSE LET h == ContentLengthOf(r)
             cl == IF h.present THEN h.value ELSE EmptyStr
         IN  ToContentType(
               [m EXCEPT !.w.content_length = <<"[">> \o cl \o <<"]">>])

\* The answer to the request kept as `response`, lines 597-602 and 806-811.
AfterResponse(m, r) ==
    IF ~r.ok THEN Continue(m)
    ELSE IF m.w.job.path # EmptyStr
         THEN HeadersThenText([m EXCEPT !.w.response = r])
    ELSE ToContentLength([m EXCEPT !.w.response = r])

\* A failed request that ends the task instead of the entry.
AfterRespAborts(m, r) ==
    IF ~r.ok THEN [m EXCEPT !.w = IdleTask("done")]
    ELSE IF m.w.job.path # EmptyStr
         THEN ToContentLength([m EXCEPT !.w.resp = r])
    ELSE Issue([m EXCEPT !.w.resp = r], "get_response")

\* A failed request that is sent a second time.
AfterRespRetries(m, r) ==
    LET sent == {i \in DOMAIN m.reqs : /\ m.reqs[i].job = m.w.job.id
                                       /\ m.reqs[i].di = m.w.di
                                       /\ m.reqs[i].kind = "get_resp"}
    IN  IF ~r.ok
        THEN (IF Cardinality(sent) < 2 THEN Issue(m, "get_resp") ELSE Continue(m))
        ELSE IF m.w.job.path # EmptyStr
             THEN ToContentLength([m EXCEPT !.w.resp = r])
        ELSE Issue([m EXCEPT !.w.resp = r], "get_response")

\* The answer to the request kept as `resp`, lines 495-500 and 792-797.
AfterResp(m, r) ==
    IF ~r.ok THEN Continue(m)
    ELSE IF m.w.job.path # EmptyStr
         THEN ToContentLength([m EXCEPT !.w.resp = r])
    ELSE Issue([m EXCEPT !.w.resp = r], "get_response")

\* A path check that knows 404 only.
AfterPathProbeOnly404(m, r) ==
    IF ~r.ok THEN Continue(m)
    ELSE IF r.status # 404 THEN Issue(m, "get_resp")
    ELSE Continue(m)

\* The answer to the path probe, lines 475-488 and 778.
AfterPathProbe(m, r) ==
    IF ~r.ok THEN Continue(m)
    ELSE IF r.status # 404 /\ r.status # 400 THEN Issue(m, "get_resp")
    ELSE Continue(m)

\* Lines 461-468 and 779-786: the first request of an entry; past the last
\* entry the task is back at rx.recv() (line 422).
StartCandidate(m) ==
    IF m.w.di > Len(m.w.resolved_domains)
    THEN [m EXCEPT !.w = IdleTask("recv")]
    ELSE IF m.w.job.path # EmptyStr THEN Issue(m, "path_probe")
    ELSE Issue(m, "get_resp")

\* The answer of an HTTP request, by the place the task awaits it at.
AfterHttp(m, r) ==
    CASE m.w.pc = "path_probe" -> AfterPathProbe(m, r)
      [] m.w.pc = "get_resp" -> AfterResp(m, r)
      [] m.w.pc = "get_cl" -> AfterContentLength(m, r)
      [] m.w.pc = "get_ct" -> AfterContentType(m, r)
      [] m.w.pc = "get_server" -> AfterServer(m, r)
      [] m.w.pc = "get_response" -> AfterResponse(m, r)

HttpPcs ==
    {"path_probe", "get_resp", "get_cl", "get_ct", "get_server", "get_response"}

\* The answers a request can get, by the place the task awaits it at: the
\* status varies where the code reads the status (lines 483, 696, 985), the
\* headers where it reads the headers.
ProbeAnswers ==
    [pc \in HttpPcs |->
        IF pc \in {"path_probe", "get_response"} THEN StatusResponses
        ELSE HeaderResponses]

FewAnswers == [pc \in HttpPcs |-> FewResponses]

\* Every status for the request kept as `response` (lines 696 and 985).
StatusAnswers ==
    [pc \in HttpPcs |->
        IF pc = "get_response"
        THEN {HttpErr} \cup {HttpOk(st, HeadersNone) : st \in BucketStatuses}
        ELSE FewResponses]

\* A task that starts to probe as soon as one lookup has returned.
AfterLookupProbesAtOnce(m, lookup) ==
    LET t == m.w
        port == t.ports_array[t.pi]
        pushed == Append(t.resolved_domains,
                         http_resolver(t.job.host, AttemptSchema(port, t.sub),
                                       port, lookup))
    IN  StartCandidate([m EXCEPT !.w.resolved_domains = pushed,
                                 !.w.pi = 0, !.w.sub = 0,
                                 !.w.ports_array = << >>, !.w.di = 1])

\* Lines 438-461: a lookup returned; its result is pushed, and the task goes
\* on to the next lookup or, after the last port, to the first entry.
AfterLookup(m, lookup) ==
    LET t == m.w
        port == t.ports_array[t.pi]
        pushed == Append(t.resolved_domains,
                         http_resolver(t.job.host, AttemptSchema(port, t.sub),
                                       port, lookup))
    IN  IF t.sub < AttemptCount(port)
        THEN [m EXCEPT !.w.resolved_domains = pushed, !.w.sub = t.sub + 1]
        ELSE IF t.pi < Len(t.ports_array)
        THEN [m EXCEPT !.w.resolved_domains = pushed, !.w.pi = t.pi + 1,
                       !.w.sub = 1]
        ELSE StartCandidate([m EXCEPT !.w.resolved_domains = pushed,
                                      !.w.pi = 0, !.w.sub = 0,
                                      !.w.ports_array = << >>, !.w.di = 1])

\* Lines 422-444: a job was received; the task awaits its first lookup.
AfterRecv(t, job) ==
    [t EXCEPT !.pc = "dns", !.job = job, !.ports_array = Split(job.ports),
              !.pi = 1, !.sub = 1, !.resolved_domains = <<EmptyStr>>]

(***************************************************************************)
(* The state of a run.                                                     *)
(***************************************************************************)
VARIABLES
    cfg,              \* the options and the collected host lines (lines 185-282)
    mainPc,           \* where main is: "spawn", "shutdown", "dropped", "exited"
    spawnI,           \* iterations done of the loop of line 316
    prodPc,           \* the send_url task: "start", "loop", "done", "panicked", "cancelled"
    prodI,            \* hosts the loop of line 359 is through
    queue,            \* the jobs in the spmc channel
    is_disconnected,  \* the channel's flag: the Sender, or every Receiver, was dropped
    task,             \* the run_detector tasks, by slot of the loop of line 316
    reqs,             \* log: the HTTP requests sent, by task
    out,              \* log: the lines printed on standard output, by task
    lookups,          \* log: the DNS lookups made, with their results, by task
    sentLog,          \* log: the ids of the jobs tx.send accepted
    errLog,           \* log: the ids of the jobs tx.send refused (line 376)
    recvLog,          \* log: which task rx.recv handed which job
    now,              \* the limiter's clock, in replenish intervals (1/rate s)
    tat,              \* the limiter's state: << >> before the first check
    admitLog          \* log: the time of every return of until_ready()

vars ==
    <<cfg, mainPc, spawnI, prodPc, prodI, queue, is_disconnected, task,
      reqs, out, lookups, sentLog, errLog, recvLog, now, tat, admitLog>>

Slots == 1..MaxConc

\* The default of --rate (line 60).
DefaultRate == <<"1", "0", "0", "0">>

\* --rate values the pipeline runs with: NonZeroU32::new(0) is None.
Rates == {<<"0">>, DefaultRate}

\* --rate values, well-formed or not.
RateArgs == Rates \cup {<<"1">>, <<"2">>, <<"f", "a", "s", "t">>}

\* Lines 192-198: String::parse::<String> cannot fail, so the value is
\* n.parse::<u32>().unwrap().
RateParses(c) == ParsesAsU32(c.rate)

RateOf(c) == U32Value(c.rate)

RECURSIVE SeqsUpTo(_, _)
SeqsUpTo(S, n) ==
    IF n = 0 THEN {<< >>}
    ELSE LET shorter == SeqsUpTo(S, n - 1)
         IN  shorter \cup {Append(q, x) : q \in shorter, x \in S}

\* Lines 261-270: --workers, 1 when it is not given or not a number.
DefaultWorkers == 1

\* What lines.next() yields for one line of standard input (line 276): the
\* line, or an error (a line that is not UTF-8).
ReadOk(h) == [ok |-> TRUE, line |-> h]

ReadErr == [ok |-> FALSE, line |-> EmptyStr]

InputLines == {ReadOk(h) : h \in HostLines} \cup {ReadErr}

\* Lines 277-280: the host kept for a line.
HostOfLine(line) == IF line.ok THEN line.line ELSE EmptyStr

\* The input whose reading gave these hosts.
AsInput(hosts) == [i \in DOMAIN hosts |-> ReadOk(hosts[i])]

\* The options of a run and the hosts read.  threads is the number of
\* worker threads of the runtime of #[tokio::main] (line 49), which the
\* machine decides; workers is --workers, the number of threads of the
\* runtime rt (lines 284-288); stdin is what standard input holds.
Config(hosts, concurrency, threads, rate, ports, path, body_regex, header_regex, flags) ==
    [hosts |-> hosts, concurrency |-> concurrency, threads |-> threads,
     workers |-> DefaultWorkers, stdin |-> AsInput(hosts),
     rate |-> rate, ports |-> ports, path |-> path,
     body_regex |-> body_regex, header_regex |-> header_regex,
     display_title |-> flags.display_title,
     display_tech |-> flags.display_tech,
     status_codes |-> flags.status_codes,
     content_length |-> flags.content_length,
     content_type |-> flags.content_type,
     server |-> flags.server]

Flags(title, tech, status, clen, ctype, server) ==
    [display_title |-> title, display_tech |-> tech, status_codes |-> status,
     content_length |-> clen, content_type |-> ctype, server |-> server]

FlagsOff == Flags(FALSE, FALSE, FALSE, FALSE, FALSE, FALSE)

AllFlags == Flags(TRUE, TRUE, TRUE, TRUE, TRUE, TRUE)

\* Every flag alone, none, and all.
FlagChoices ==
    {FlagsOff, AllFlags,
     Flags(TRUE, FALSE, FALSE, FALSE, FALSE, FALSE),
     Flags(FALSE, TRUE, FALSE, FALSE, FALSE, FALSE),
     Flags(FALSE, FALSE, TRUE, FALSE, FALSE, FALSE),
     Flags(FALSE, FALSE, FALSE, TRUE, FALSE, FALSE),
     Flags(FALSE, FALSE, FALSE, FALSE, TRUE, FALSE),
     Flags(FALSE, FALSE, FALSE, FALSE, FALSE, TRUE)}

\* The state main leaves when it has read standard input (line 282).
Started(c) ==
    /\ cfg = c
    /\ mainPc = "spawn"
    /\ spawnI = 0
    /\ prodPc = "start"
    /\ prodI = 0
    /\ queue = << >>
    /\ is_disconnected = FALSE
    /\ task = [s \in Slots |-> IdleTask("unspawned")]
    /\ reqs = [s \in Slots |-> << >>]
    /\ out = [s \in Slots |-> << >>]
    /\ lookups = [s \in Slots |-> << >>]
    /\ sentLog = << >>
    /\ errLog = << >>
    /\ recvLog = << >>
    /\ now = 0
    /\ tat = << >>
    /\ admitLog = << >>

\* The unwrap of line 193 panicked: main is gone before standard input is
\* read, the runtime built, or any task spawned.
Rejected(c) ==
    /\ cfg = c
    /\ mainPc = "panicked"
    /\ spawnI = 0
    /\ prodPc = "unspawned"
    /\ prodI = 0
    /\ queue = << >>
    /\ is_disconnected = FALSE
    /\ task = [s \in Slots |-> IdleTask("unspawned")]
    /\ reqs = [s \in Slots |-> << >>]
    /\ out = [s \in Slots |-> << >>]
    /\ lookups = [s \in Slots |-> << >>]
    /\ sentLog = << >>
    /\ errLog = << >>
    /\ recvLog = << >>
    /\ now = 0
    /\ tat = << >>
    /\ admitLog = << >>

\* The state main is in at line 273: the options are parsed, `hosts` is
\* empty and nothing of standard input is read.
AtRead(c, input) ==
    /\ cfg = [c EXCEPT !.hosts = << >>, !.stdin = input]
    /\ mainPc = "read"
    /\ spawnI = 0
    /\ prodPc = "unspawned"
    /\ prodI = 0
    /\ queue = << >>
    /\ is_disconnected = FALSE
    /\ task = [s \in Slots |-> IdleTask("unspawned")]
    /\ reqs = [s \in Slots |-> << >>]
    /\ out = [s \in Slots |-> << >>]
    /\ lookups = [s \in Slots |-> << >>]
    /\ sentLog = << >>
    /\ errLog = << >>
    /\ recvLog = << >>
    /\ now = 0
    /\ tat = << >>
    /\ admitLog = << >>

\* The pipeline: any hosts, any pool, default options.
Init ==
    \E hosts \in SeqsUpTo(HostLines, MaxHosts), concurrency \in 0..MaxConc,
       threads \in 1..MaxThreads, rate \in Rates :
        Started(Config(hosts, concurrency, threads, rate, Ports80, EmptyStr,
                       EmptyStr, EmptyStr, FlagsOff))

(***************************************************************************)
(* main, lines 313-335.                                                    *)
(***************************************************************************)
Spawned(s) == task[s].pc # "unspawned"

\* Tasks that sit in the blocking rx.recv() occupy a runtime thread.
Blocked == {s \in Slots : task[s].pc = "recv"}

ThreadFree == Cardinality(Blocked) < cfg.threads

\* One iteration of the loop of lines 276-282: the next line of standard
\* input is pushed to `hosts`, as "" when reading it failed.
MainRead ==
    /\ mainPc = "read"
    /\ Len(cfg.hosts) < Len(cfg.stdin)
    /\ cfg' = [cfg EXCEPT !.hosts =
                  Append(@, HostOfLine(cfg.stdin[Len(cfg.hosts) + 1]))]
    /\ UNCHANGED <<now, tat, admitLog, mainPc, spawnI, prodPc, prodI, queue,
                   is_disconnected, task, reqs, out, lookups, sentLog, errLog,
                   recvLog>>

\* A main that leaves the loop of line 276 at any time.
MainSetupBeforeEof ==
    /\ mainPc = "read"
    /\ mainPc' = "spawn"
    /\ prodPc' = "start"
    /\ UNCHANGED <<cfg, now, tat, admitLog, spawnI, prodI, queue,
                   is_disconnected, task, reqs, out, lookups, sentLog, errLog,
                   recvLog>>

\* Lines 276 and 284-310: lines.next() yields None at the end of the input;
\* rt and the channel are built and send_url is spawned with the hosts.
MainSetup ==
    /\ mainPc = "read"
    /\ Len(cfg.hosts) = Len(cfg.stdin)
    /\ mainPc' = "spawn"
    /\ prodPc' = "start"
    /\ UNCHANGED <<cfg, now, tat, admitLog, spawnI, prodI, queue,
                   is_disconnected, task, reqs, out, lookups, sentLog, errLog,
                   recvLog>>

\* One iteration of the loop of line 316: the slot is skipped when
\* random_free_tcp_port() finds no port.
MainSpawn ==
    /\ mainPc = "spawn"
    /\ spawnI < cfg.concurrency
    /\ \E port_found \in BOOLEAN :
          task' = IF port_found
                  THEN [task EXCEPT ![spawnI + 1] = IdleTask("spawned")]
                  ELSE task
    /\ spawnI' = spawnI + 1
    /\ UNCHANGED <<cfg, now, tat, admitLog, mainPc, prodPc, prodI, queue, is_disconnected, reqs,
                   out, lookups, sentLog, errLog, recvLog>>

\* Lines 332-333: every pushed handle has completed; rt.shutdown_background().
MainJoin ==
    /\ mainPc = "spawn"
    /\ spawnI >= cfg.concurrency
    /\ \A s \in Slots : Spawned(s) => task[s].pc = "done"
    /\ mainPc' = "shutdown"
    /\ UNCHANGED <<cfg, now, tat, admitLog, spawnI, prodPc, prodI, queue, is_disconnected, task,
                   reqs, out, lookups, sentLog, errLog, recvLog>>

\* Line 335-336: main returns; job_rx, the last Receiver, is dropped.
MainReturn ==
    /\ mainPc = "shutdown"
    /\ mainPc' = "dropped"
    /\ is_disconnected' = TRUE
    /\ UNCHANGED <<cfg, now, tat, admitLog, spawnI, prodPc, prodI, queue, task, reqs, out,
                   lookups, sentLog, errLog, recvLog>>

\* The process exits.
MainExit ==
    /\ mainPc = "dropped"
    /\ mainPc' = "exited"
    /\ UNCHANGED <<cfg, now, tat, admitLog, spawnI, prodPc, prodI, queue, is_disconnected, task,
                   reqs, out, lookups, sentLog, errLog, recvLog>>

(***************************************************************************)
(* send_url, lines 341-380, running on the runtime rt.                     *)
(***************************************************************************)
\* Line 357: the quota; unwrap panics on rate 0 and tx is dropped with the
\* task.  With no hosts the loop is empty and send_url returns at once.
ProdStart ==
    /\ mainPc # "exited"
    /\ prodPc = "start"
    /\ prodPc' = IF RateOf(cfg) = 0 THEN "panicked"
                 ELSE IF cfg.hosts = << >> THEN "done" ELSE "loop"
    /\ is_disconnected' = (is_disconnected \/ RateOf(cfg) = 0 \/ cfg.hosts = << >>)
    /\ UNCHANGED <<cfg, now, tat, admitLog, mainPc, spawnI, prodI, queue, task, reqs, out,
                   lookups, sentLog, errLog, recvLog>>

\* spmc's Sender::send: refused once the channel is disconnected.
SendAccepted == ~is_disconnected

\* governor's limiter for Quota::per_second(rate), in replenish intervals:
\* one cell is replenished per interval and the burst size is the rate.
Replenish == 1

Tau(c) == Replenish * RateOf(c)

\* The theoretical arrival time a check at time t0 starts from.
TatAt(t0) == IF tat = << >> THEN t0 + Replenish ELSE tat[1]

\* check() at time t0 lets a cell through.
Conforms(c, t0) == t0 >= TatAt(t0) - Tau(c)

\* The limiter's state after a cell went through at time t0.
NextTat(t0) == <<(IF TatAt(t0) > t0 THEN TatAt(t0) ELSE t0) + Replenish>>

\* A send_url that returns at the first send that is refused.
ProdSendStopsOnError ==
    /\ mainPc # "exited"
    /\ prodPc = "loop"
    /\ Conforms(cfg, now)
    /\ tat' = NextTat(now)
    /\ admitLog' = Append(admitLog, now)
    /\ now' = now
    /\ LET id == prodI + 1
           msg == MakeJob(id, cfg.hosts[id], cfg)
           last == id = Len(cfg.hosts) \/ ~SendAccepted
       IN  /\ prodI' = id
           /\ IF SendAccepted
              THEN /\ queue' = Append(queue, msg)
                   /\ sentLog' = Append(sentLog, id)
                   /\ errLog' = errLog
              ELSE /\ queue' = queue
                   /\ sentLog' = sentLog
                   /\ errLog' = Append(errLog, id)
           /\ prodPc' = IF last THEN "done" ELSE "loop"
           /\ is_disconnected' = (is_disconnected \/ last)
    /\ UNCHANGED <<cfg, mainPc, spawnI, task, reqs, out, lookups, recvLog>>

\* Lines 359-379: until_ready() returned; the job is built and sent; after
\* the last host send_url returns Ok and tx is dropped.
ProdSend ==
    /\ mainPc # "exited"
    /\ prodPc = "loop"
    /\ Conforms(cfg, now)
    /\ tat' = NextTat(now)
    /\ admitLog' = Append(admitLog, now)
    /\ now' = now
    /\ LET id == prodI + 1
           msg == MakeJob(id, cfg.hosts[id], cfg)
           last == id = Len(cfg.hosts)
       IN  /\ prodI' = id
           /\ IF SendAccepted
              THEN /\ queue' = Append(queue, msg)
                   /\ sentLog' = Append(sentLog, id)
                   /\ errLog' = errLog
              ELSE /\ queue' = queue
                   /\ sentLog' = sentLog
                   /\ errLog' = Append(errLog, id)
           /\ prodPc' = IF last THEN "done" ELSE "loop"
           /\ is_disconnected' = (is_disconnected \/ last)
    /\ UNCHANGED <<cfg, mainPc, spawnI, task, reqs, out, lookups, recvLog>>

\* Time passes while send_url is in its loop.
Tick ==
    /\ mainPc # "exited"
    /\ prodPc = "loop"
    /\ now < MaxTime
    /\ now' = now + 1
    /\ UNCHANGED <<cfg, mainPc, spawnI, prodPc, prodI, queue, is_disconnected,
                   task, reqs, out, lookups, sentLog, errLog, recvLog, tat,
                   admitLog>>

\* rt.shutdown_background() (line 333) drops the task at its next await.
ProdCancel ==
    /\ mainPc \in {"shutdown", "dropped"}
    /\ prodPc \in {"start", "loop"}
    /\ prodPc' = "cancelled"
    /\ is_disconnected' = TRUE
    /\ UNCHANGED <<cfg, now, tat, admitLog, mainPc, spawnI, prodI, queue, task, reqs, out,
                   lookups, sentLog, errLog, recvLog>>

(***************************************************************************)
(* The run_detector tasks.                                                 *)
(***************************************************************************)
Step(s) == [w |-> task[s], id |-> s, reqs |-> reqs[s], out |-> out[s]]

Commit(s, m) ==
    /\ task' = [task EXCEPT ![s] = m.w]
    /\ reqs' = [reqs EXCEPT ![s] = m.reqs]
    /\ out' = [out EXCEPT ![s] = m.out]

\* Lines 391-422: the task is first polled, builds its client and calls rx.recv().
TaskStart(s) ==
    /\ mainPc # "exited"
    /\ task[s].pc = "spawned"
    /\ ThreadFree
    /\ task' = [task EXCEPT ![s] = IdleTask("recv")]
    /\ UNCHANGED <<cfg, now, tat, admitLog, mainPc, spawnI, prodPc, prodI, queue, is_disconnected,
                   reqs, out, lookups, sentLog, errLog, recvLog>>

\* A broadcast channel: the head stays for the other receivers.
RecvPopKeeps(q) == q

\* spmc's Receiver::recv with a job in the queue: the head is popped.
RecvPop(q) == Tail(q)

\* Line 422, Ok(job).
TaskRecv(s) ==
    /\ mainPc # "exited"
    /\ task[s].pc = "recv"
    /\ queue # << >>
    /\ task' = [task EXCEPT ![s] = AfterRecv(task[s], Head(queue))]
    /\ queue' = RecvPop(queue)
    /\ recvLog' = Append(recvLog, [w |-> s, job |-> Head(queue).id])
    /\ UNCHANGED <<cfg, now, tat, admitLog, mainPc, spawnI, prodPc, prodI, is_disconnected, reqs,
                   out, lookups, sentLog, errLog>>

\* A receive that gives up on an empty queue, closed or not.
RecvFailsOnEmpty == queue = << >>

\* A receive that the return of send_url does not wake up.
RecvFailsUnlessReturned == queue = << >> /\ is_disconnected /\ prodPc # "done"

\* spmc's Receiver::recv fails when the queue is empty and disconnected.
RecvFails == queue = << >> /\ is_disconnected

\* Line 422, Err: the loop ends and run_detector returns.
TaskExit(s) ==
    /\ mainPc # "exited"
    /\ task[s].pc = "recv"
    /\ RecvFails
    /\ task' = [task EXCEPT ![s] = IdleTask("done")]
    /\ UNCHANGED <<cfg, now, tat, admitLog, mainPc, spawnI, prodPc, prodI, queue, is_disconnected,
                   reqs, out, lookups, sentLog, errLog, recvLog>>

\* A lookup_host(..).await of http_resolver returns and the task is resumed.
DnsReturn(s, answers) ==
    /\ mainPc # "exited"
    /\ task[s].pc = "dns"
    /\ ThreadFree
    /\ LET t == task[s]
           port == t.ports_array[t.pi]
       IN  \E lookup \in LookupOutcomes(t.job.host, port, answers) :
              /\ Commit(s, AfterLookup(Step(s), lookup))
              /\ lookups' = [lookups EXCEPT ![s] = Append(@,
                     [w |-> s, job |-> t.job.id, pi |-> t.pi, port |-> port,
                      schema |-> AttemptSchema(port, t.sub),
                      host |-> t.job.host, lookup |-> lookup])]
    /\ UNCHANGED <<cfg, now, tat, admitLog, mainPc, spawnI, prodPc, prodI, queue, is_disconnected,
                   sentLog, errLog, recvLog>>

\* A client.execute(..).await returns and the task is resumed.
HttpReturn(s, answers) ==
    /\ mainPc # "exited"
    /\ task[s].pc \in HttpPcs
    /\ ThreadFree
    /\ \E r \in answers[task[s].pc] : Commit(s, AfterHttp(Answered(Step(s), r), r))
    /\ UNCHANGED <<cfg, now, tat, admitLog, mainPc, spawnI, prodPc, prodI, queue, is_disconnected,
                   lookups, sentLog, errLog, recvLog>>

\* resp.text().await returns and the task is resumed.
TextReturn(s, answers) ==
    /\ mainPc # "exited"
    /\ task[s].pc = "text"
    /\ ThreadFree
    /\ \E text \in answers : Commit(s, AfterText(Answered(Step(s), text), text))
    /\ UNCHANGED <<cfg, now, tat, admitLog, mainPc, spawnI, prodPc, prodI, queue, is_disconnected,
                   lookups, sentLog, errLog, recvLog>>

\* wappalyzer::scan(..).await returns and the task is resumed.
ScanReturn(s) ==
    /\ mainPc # "exited"
    /\ task[s].pc = "scan"
    /\ ThreadFree
    /\ \E scan \in Scans : Commit(s, AfterScan(Answered(Step(s), scan), scan))
    /\ UNCHANGED <<cfg, now, tat, admitLog, mainPc, spawnI, prodPc, prodI, queue, is_disconnected,
                   lookups, sentLog, errLog, recvLog>>

MainStep == MainSpawn \/ MainJoin \/ MainReturn \/ MainExit

ProdStep == ProdStart \/ ProdSend \/ ProdCancel

Next ==
    \/ MainSpawn
    \/ MainJoin
    \/ MainReturn
    \/ MainExit
    \/ ProdStart
    \/ ProdSend
    \/ ProdCancel
    \/ \E s \in Slots : TaskStart(s)
    \/ \E s \in Slots : TaskRecv(s)
    \/ \E s \in Slots : TaskExit(s)
    \/ \E s \in Slots : DnsReturn(s, FewDnsAnswers)
    \/ \E s \in Slots : HttpReturn(s, FewAnswers)
    \/ \E s \in Slots : TextReturn(s, FewTexts)

Spec == Init /\ [][Next]_vars

\* Fair scheduling: main and every task that can run eventually does, and
\* every lookup, request, body read and scan eventually returns.
TaskStep(s) ==
    \/ TaskStart(s)
    \/ TaskRecv(s)
    \/ TaskExit(s)
    \/ DnsReturn(s, FewDnsAnswers)
    \/ HttpReturn(s, FewAnswers)
    \/ TextReturn(s, FewTexts)

SpecLive ==
    /\ Spec
    /\ WF_vars(MainStep)
    /\ WF_vars(ProdStep)
    /\ \A s \in Slots : WF_vars(TaskStep(s))

(***************************************************************************)
(* The job queue and the life of a run.                                    *)
(***************************************************************************)
SenderDropped == prodPc \in {"done", "panicked", "cancelled"}

AllTasksDone == \A s \in Slots : Spawned(s) => task[s].pc = "done"

SomeTaskSpawned == \E s \in Slots : Spawned(s)

SentIds == {sentLog[i] : i \in DOMAIN sentLog}

ReceivedIds == {recvLog[i].job : i \in DOMAIN recvLog}

\* C1: every job sent on the queue is received by exactly one task: no job
\* is received twice, only sent jobs are received, and once the tasks have
\* all returned no sent job is left unreceived.
C1_DeliveredExactlyOnce ==
    /\ \A i, j \in DOMAIN recvLog :
          recvLog[i].job = recvLog[j].job => i = j
    /\ ReceivedIds \subseteq SentIds
    /\ (SomeTaskSpawned /\ AllTasksDone) => SentIds \subseteq ReceivedIds

\* Two jobs went to two different tasks, and every task has returned.
C1_Witness ==
    /\ Len(recvLog) = 2
    /\ recvLog[1].w # recvLog[2].w
    /\ SomeTaskSpawned
    /\ AllTasksDone

\* C2: under fair scheduling, once send_url has returned (its last job sent,
\* the Sender dropped) every task eventually leaves its receive loop and
\* the run completes.
C2_RunCompletes ==
    (prodPc = "done") ~> (mainPc = "exited" /\ AllTasksDone)

\* A run that completed after its tasks had received jobs.
C2_Witness ==
    /\ prodPc = "done"
    /\ mainPc = "exited"
    /\ recvLog # << >>
    /\ \E s \in Slots : task[s].pc = "done"

\* C3: a task has left its receive loop only if the Sender is dropped and
\* the queue is empty.
C3_ExitOnlyWhenClosedAndDrained ==
    \A s \in Slots :
        task[s].pc = "done" => (SenderDropped /\ queue = << >>)

\* A task returned after jobs had gone through the queue.
C3_Witness ==
    /\ \E s \in Slots : task[s].pc = "done"
    /\ recvLog # << >>

MainPastJoin == mainPc \in {"shutdown", "dropped", "exited"}

\* C4: main is past the join only when a job was enqueued for every input
\* line and every enqueued job was received and processed to its end,
\* however many tasks were started.
C4_CompleteOnlyAfterAllProcessed ==
    MainPastJoin =>
        /\ Len(sentLog) = Len(cfg.hosts)
        /\ queue = << >>
        /\ SentIds = ReceivedIds
        /\ \A s \in Slots : task[s].pc \in {"unspawned", "done"}

(***************************************************************************)
(* Probing: one host, one port, one task, every option and every answer.   *)
(***************************************************************************)
\* No pattern, or one of the two patterns, well-formed or not.
PatternChoices ==
    {[body_regex |-> b, header_regex |-> EmptyStr] : b \in BodyPatterns}
        \cup {[body_regex |-> EmptyStr, header_regex |-> h] : h \in HeaderPatterns}

InitProbe ==
    \E path \in Paths, pats \in PatternChoices, flags \in FlagChoices :
        Started(Config(<<ExampleHost>>, 1, 1, DefaultRate, Ports80, path,
                       pats.body_regex, pats.header_regex, flags))

NextProbe ==
    \/ MainSpawn
    \/ MainJoin
    \/ MainReturn
    \/ MainExit
    \/ ProdStart
    \/ ProdSend
    \/ ProdCancel
    \/ \E s \in Slots : TaskStart(s)
    \/ \E s \in Slots : TaskRecv(s)
    \/ \E s \in Slots : TaskExit(s)
    \/ \E s \in Slots : DnsReturn(s, FewDnsAnswers)
    \/ \E s \in Slots : HttpReturn(s, ProbeAnswers)
    \/ \E s \in Slots : TextReturn(s, Texts)
    \/ \E s \in Slots : ScanReturn(s)

SpecProbe == InitProbe /\ [][NextProbe]_vars

\* What the logs say about one entry of resolved_domains.
EntriesOf(s, job, di) ==
    {i \in DOMAIN reqs[s] : reqs[s][i].job = job /\ reqs[s][i].di = di}

LinesOf(s, job, di) ==
    {i \in DOMAIN out[s] : out[s][i].src.job = job /\ out[s][i].src.di = di}

\* The task is through with the entry: it is at another one, or idle.
EntryOver(s, job, di) == task[s].job.id # job \/ task[s].di # di

\* C5: when the path probe of an entry is answered 404 or 400, no further
\* request is made for the entry and no line is printed for it.
C5_RejectedPathIsAbandoned ==
    \A s \in Slots : \A i \in DOMAIN reqs[s] :
        LET e == reqs[s][i]
        IN  (e.kind = "path_probe" /\ e.done /\ e.answer.ok
                /\ e.answer.status \in {404, 400})
            => /\ EntriesOf(s, e.job, e.di) = {i}
               /\ LinesOf(s, e.job, e.di) = {}

\* A path probe was answered 400 and the task has finished the job.
C5_Witness ==
    \E s \in Slots : \E i \in DOMAIN reqs[s] :
        /\ reqs[s][i].kind = "path_probe"
        /\ reqs[s][i].done
        /\ reqs[s][i].answer.ok
        /\ reqs[s][i].answer.status = 400
        /\ task[s].pc = "done"

\* Every await of the entry returned without error, the path probe (if
\* any) was not 404 or 400, the headers read were text, the body was read.
Decodable(e, name) ==
    LET h == HeaderGet(e.answer.headers, name)
    IN  h.present => ToStrOk(h.value)

EntrySucceeded(s, job, di) ==
    /\ \A i \in EntriesOf(s, job, di) :
          LET e == reqs[s][i]
          IN  /\ e.done
              /\ e.answer.ok
              /\ e.kind = "path_probe" => e.answer.status \notin {404, 400}
              /\ e.kind = "get_ct" => Decodable(e, "content-type")
              /\ e.kind = "get_server" => Decodable(e, "server")
    /\ \E i \in EntriesOf(s, job, di) : reqs[s][i].kind = "text"
    /\ cfg.display_tech =>
          \E i \in EntriesOf(s, job, di) : reqs[s][i].kind = "scan"

\* C6: with an empty body regex every entry that passed the path check and
\* whose requests all succeeded has a line printed; with a body regex that
\* does not match the body no line is printed.
C6_BodyRegexGate ==
    \A s \in Slots : \A i \in DOMAIN reqs[s] :
        LET e == reqs[s][i]
        IN  (e.kind = "text" /\ EntryOver(s, e.job, e.di))
            => /\ (cfg.body_regex = EmptyStr /\ EntrySucceeded(s, e.job, e.di))
                     => LinesOf(s, e.job, e.di) # {}
               /\ (cfg.body_regex # EmptyStr /\ e.done /\ e.answer.ok
                     /\ ~RegexIsMatch(cfg.body_regex, e.answer.body))
                     => LinesOf(s, e.job, e.di) = {}

\* The headers of the response kept as `resp` for an entry.
RespHeaders(s, job, di) ==
    LET i == CHOOSE i \in EntriesOf(s, job, di) : reqs[s][i].kind = "get_resp"
    IN  reqs[s][i].answer.headers

SomeHeaderMatches(pat, headers) ==
    \E k \in DOMAIN headers :
        /\ ToStrOk(headers[k].value)
        /\ RegexIsMatch(pat, <<headers[k].name, ":">> \o headers[k].value)

\* C7: with a header regex, a line is printed for an entry only if some
\* "name:value" header line of its response matches the pattern.
C7_HeaderRegexGate ==
    \A s \in Slots : \A k \in DOMAIN out[s] :
        cfg.header_regex # EmptyStr
        => /\ RegexCompiles(cfg.header_regex)
           /\ SomeHeaderMatches(cfg.header_regex,
                  RespHeaders(s, out[s][k].src.job, out[s][k].src.di))

(***************************************************************************)
(* Resolving: one host, one task, every port list and every DNS answer.    *)
(***************************************************************************)
InitResolve ==
    \E ports \in PortLists, path \in Paths :
        Started(Config(<<ExampleHost>>, 1, 1, DefaultRate, ports, path,
                       EmptyStr, EmptyStr, FlagsOff))

NextResolve ==
    \/ MainSpawn
    \/ MainJoin
    \/ MainReturn
    \/ MainExit
    \/ ProdStart
    \/ ProdSend
    \/ ProdCancel
    \/ \E s \in Slots : TaskStart(s)
    \/ \E s \in Slots : TaskRecv(s)
    \/ \E s \in Slots : TaskExit(s)
    \/ \E s \in Slots : DnsReturn(s, DnsAnswers)
    \/ \E s \in Slots : HttpReturn(s, FewAnswers)
    \/ \E s \in Slots : TextReturn(s, FewTexts)

SpecResolve == InitResolve /\ [][NextResolve]_vars

\* The lookups the resolver is to make for a list of port tokens: http for
\* "80", https for "443", https and then http for anything else.
RECURSIVE ExpectedAttempts(_)
ExpectedAttempts(tokens) ==
    IF tokens = << >> THEN << >>
    ELSE LET p == Head(tokens)
             mine == IF p = <<"8", "0">> THEN << <<"http://", p>> >>
                     ELSE IF p = <<"4", "4", "3">> THEN << <<"https://", p>> >>
                     ELSE << <<"https://", p>>, <<"http://", p>> >>
         IN  mine \o ExpectedAttempts(Tail(tokens))

\* The lookups a task made, as (scheme, port) pairs in the order made.
AttemptsMade(s) ==
    [i \in DOMAIN lookups[s] |-> <<lookups[s][i].schema, lookups[s][i].port>>]

IsPrefix(p, u) == Len(p) <= Len(u) /\ SubSeq(u, 1, Len(p)) = p

\* C8: the lookups made for a job are, token by token of its port list,
\* one http lookup for "80", one https lookup for "443", and an https
\* lookup followed by an http lookup for any other token.
C8_SchemeSelection ==
    \A s \in Slots :
        LET want == ExpectedAttempts(Split(cfg.ports))
        IN  /\ IsPrefix(AttemptsMade(s), want)
            /\ ((\E i \in DOMAIN recvLog : recvLog[i].w = s) /\ task[s].pc # "dns")
                  => AttemptsMade(s) = want

\* The port list "80,8443" was resolved: three lookups, then the probing.
C8_Witness ==
    \E s \in Slots :
        /\ cfg.ports = <<"8", "0", ",", "8", "4", "4", "3">>
        /\ Len(lookups[s]) = 3
        /\ task[s].pc = "done"

CandidateOf(l) == <<l.schema>> \o l.host \o <<":">> \o l.port

Resolved(l) == l.lookup.ok /\ HasIpv4(l.lookup.addrs)

InSeq(x, q) == \E i \in DOMAIN q : q[i] = x

\* C9: scheme://host:port is among the candidates exactly when its lookup
\* succeeded with an IPv4 address, and a lookup that failed or had no IPv4
\* address adds nothing that is probed.
C9_OnlyIpv4Candidates ==
    \A s \in Slots :
        /\ \A i \in DOMAIN lookups[s] :
              task[s].resolved_domains # << >>
              => (InSeq(CandidateOf(lookups[s][i]), task[s].resolved_domains)
                    <=> Resolved(lookups[s][i]))
        /\ \A i \in DOMAIN reqs[s] :
              \E k \in DOMAIN lookups[s] :
                  /\ Resolved(lookups[s][k])
                  /\ IsPrefix(CandidateOf(lookups[s][k]), reqs[s][i].url)

(***************************************************************************)
(* Failures: one task, two candidates or two jobs, requests that fail.     *)
(***************************************************************************)
MetadataFlags == Flags(FALSE, FALSE, FALSE, TRUE, TRUE, TRUE)

InitIsolate ==
    \E path \in Paths :
        \/ Started(Config(<<ExampleHost, ExampleHost>>, 1, 1, DefaultRate,
                          Ports80, path, EmptyStr, EmptyStr, FlagsOff))
        \/ \E flags \in {FlagsOff, MetadataFlags} :
              Started(Config(<<ExampleHost>>, 1, 1, DefaultRate, PortsDefault,
                             path, EmptyStr, EmptyStr, flags))

NextIsolate ==
    \/ MainSpawn
    \/ MainJoin
    \/ MainReturn
    \/ MainExit
    \/ ProdStart
    \/ ProdSend
    \/ ProdCancel
    \/ \E s \in Slots : TaskStart(s)
    \/ \E s \in Slots : TaskRecv(s)
    \/ \E s \in Slots : TaskExit(s)
    \/ \E s \in Slots : DnsReturn(s, FewDnsAnswers)
    \/ \E s \in Slots : HttpReturn(s, FewAnswers)
    \/ \E s \in Slots : TextReturn(s, FewTexts)

SpecIsolate == InitIsolate /\ [][NextIsolate]_vars

Failed(e) == e.done /\ ~e.answer.ok /\ e.kind \in HttpPcs \cup {"text"}

JobOver(s, job) ==
    /\ \E i \in DOMAIN recvLog : recvLog[i].w = s /\ recvLog[i].job = job
    /\ task[s].job.id # job

\* C10: when a request or body read of an entry fails, the entry gets no
\* line and no further request; the task still probes the other candidates
\* of the job, and it returns only when the queue is closed and drained,
\* with every job sent received.  A line is printed only for an entry whose
\* requests were built and sent.
C10_FailureIsolated ==
    \A s \in Slots :
        /\ \A i \in DOMAIN reqs[s] :
              LET e == reqs[s][i]
              IN  Failed(e)
                  => /\ LinesOf(s, e.job, e.di) = {}
                     /\ \A j \in EntriesOf(s, e.job, e.di) : j <= i
                     /\ JobOver(s, e.job)
                          => \A k \in DOMAIN lookups[s] :
                                (lookups[s][k].job = e.job /\ Resolved(lookups[s][k]))
                                => \E j \in DOMAIN reqs[s] :
                                      /\ reqs[s][j].job = e.job
                                      /\ IsPrefix(CandidateOf(lookups[s][k]),
                                                  reqs[s][j].url)
                     /\ task[s].pc = "done"
                          => (SenderDropped /\ queue = << >>
                                /\ SentIds \subseteq ReceivedIds)
        /\ \A k \in DOMAIN out[s] :
              EntriesOf(s, out[s][k].src.job, out[s][k].src.di) # {}

\* A request of one candidate failed, a later candidate of the same job got
\* its line, and the task went on to the end of the queue.
C10_Witness ==
    \E s \in Slots : \E i \in DOMAIN reqs[s] : \E k \in DOMAIN out[s] :
        /\ Failed(reqs[s][i])
        /\ out[s][k].src.job = reqs[s][i].job
        /\ out[s][k].src.di > reqs[s][i].di
        /\ task[s].pc = "done"

(***************************************************************************)
(* The rate option and the limiter: one task, every --rate value, and a    *)
(* clock that runs while send_url is in its loop.                          *)
(***************************************************************************)
InitRate ==
    \E hosts \in SeqsUpTo({ExampleHost}, MaxHosts), rate \in RateArgs :
        LET c == Config(hosts, 1, 1, rate, Ports80, EmptyStr, EmptyStr,
                        EmptyStr, FlagsOff)
        IN  IF RateParses(c) THEN Started(c)
            ELSE Rejected([c EXCEPT !.hosts = << >>])

NextRate ==
    \/ MainSpawn
    \/ MainJoin
    \/ MainReturn
    \/ MainExit
    \/ ProdStart
    \/ ProdSend
    \/ ProdCancel
    \/ Tick
    \/ \E s \in Slots : TaskStart(s)
    \/ \E s \in Slots : TaskRecv(s)
    \/ \E s \in Slots : TaskExit(s)
    \/ \E s \in Slots : DnsReturn(s, FewDnsAnswers)
    \/ \E s \in Slots : HttpReturn(s, FewAnswers)
    \/ \E s \in Slots : TextReturn(s, FewTexts)

SpecRate == InitRate /\ [][NextRate]_vars

\* C11: the n-th return of until_ready() comes at least n - 1 replenish
\* intervals ((n - 1) / rate seconds) after the first one.
C11_NoBurst ==
    \A n \in DOMAIN admitLog : admitLog[n] - admitLog[1] >= n - 1

\* The rate option is not a number, or it is the number 0.
RateInvalid == ~RateParses(cfg) \/ RateOf(cfg) = 0

\* C12: with an invalid rate option neither main nor send_url panics, and
\* when send_url is through a job was sent for every input line.
C12_InvalidRateFallsBack ==
    RateInvalid =>
        /\ mainPc # "panicked"
        /\ prodPc # "panicked"
        /\ prodPc = "done" => Len(sentLog) + Len(errLog) = Len(cfg.hosts)

(***************************************************************************)
(* The printed line: one host, one task, every status, and status          *)
(* reporting on or off.                                                    *)
(***************************************************************************)
\* C13: every entry that passed the path check, whose requests, body read
\* and scan all succeeded and whose body passed the body regex has exactly
\* one line printed, whatever its status and with status reporting on or
\* off.
C13_ExactlyOneLine ==
    \A s \in Slots : \A i \in DOMAIN reqs[s] :
        LET e == reqs[s][i]
        IN  (/\ e.kind = "text"
             /\ EntryOver(s, e.job, e.di)
             /\ EntrySucceeded(s, e.job, e.di)
             /\ \/ cfg.body_regex = EmptyStr
                \/ /\ RegexCompiles(cfg.body_regex)
                   /\ RegexIsMatch(cfg.body_regex, e.answer.body))
            => Cardinality(LinesOf(s, e.job, e.di)) = 1

StatusOnly == Flags(FALSE, FALSE, TRUE, FALSE, FALSE, FALSE)

InitStatus ==
    \E path \in Paths, flags \in {FlagsOff, StatusOnly} :
        Started(Config(<<ExampleHost>>, 1, 1, DefaultRate, Ports80, path,
                       EmptyStr, EmptyStr, flags))

NextStatus ==
    \/ MainSpawn
    \/ MainJoin
    \/ MainReturn
    \/ MainExit
    \/ ProdStart
    \/ ProdSend
    \/ ProdCancel
    \/ \E s \in Slots : TaskStart(s)
    \/ \E s \in Slots : TaskRecv(s)
    \/ \E s \in Slots : TaskExit(s)
    \/ \E s \in Slots : DnsReturn(s, FewDnsAnswers)
    \/ \E s \in Slots : HttpReturn(s, StatusAnswers)
    \/ \E s \in Slots : TextReturn(s, FewTexts)

SpecStatus == InitStatus /\ [][NextStatus]_vars

\* The five ranges and the style each one stands for.
BucketStyle(sc) ==
    IF sc < 200 THEN "white"
    ELSE IF sc < 300 THEN "green"
    ELSE IF sc < 400 THEN "blue"
    ELSE IF sc < 500 THEN "magenta"
    ELSE "red"

\* The status of the response kept as `response` for an entry.
ResponseStatus(s, job, di) ==
    LET i == CHOOSE i \in EntriesOf(s, job, di) : reqs[s][i].kind = "get_response"
    IN  reqs[s][i].answer.status

\* C14: with status reporting on, an entry whose status is in [100,600) and
\* that survived gets one line, in the style of the one range its status
\* lies in; the line holds the status in brackets, and its other fields
\* are what they are with any other status.
C14_StatusBuckets ==
    cfg.status_codes =>
        \A s \in Slots :
            /\ \A i \in DOMAIN reqs[s] :
                  LET e == reqs[s][i]
                  IN  (/\ e.kind = "text"
                       /\ EntryOver(s, e.job, e.di)
                       /\ EntrySucceeded(s, e.job, e.di)
                       /\ ResponseStatus(s, e.job, e.di) \in 100..599)
                      => \E k \in DOMAIN out[s] :
                            /\ LinesOf(s, e.job, e.di) = {k}
                            /\ out[s][k] =
                                 [url |-> e.url, title |-> EmptyStr,
                                  status |-> <<"[", ResponseStatus(s, e.job, e.di), "]">>,
                                  style |-> BucketStyle(ResponseStatus(s, e.job, e.di)),
                                  tech |-> EmptyStr, content_type |-> EmptyStr,
                                  content_length |-> EmptyStr, server |-> EmptyStr,
                                  src |-> [w |-> s, job |-> e.job, di |-> e.di]]
            /\ \A k \in DOMAIN out[s] :
                  /\ out[s][k].status[2] \in 100..599
                  /\ out[s][k].style = BucketStyle(out[s][k].status[2])

\* Lines were printed for the statuses 201, 404 and 503 in other runs; here
\* the one for 503 is out and the task has returned.
C14_Witness ==
    \E s \in Slots : \E k \in DOMAIN out[s] :
        /\ cfg.status_codes
        /\ out[s][k].status = <<"[", 503, "]">>
        /\ out[s][k].style = "red"
        /\ task[s].pc = "done"

(***************************************************************************)
(* Repeatable answers: every lookup of a well-formed host:port gives the   *)
(* same address, every request of a URL the same response and body; the    *)
(* hosts, the pool and the threads vary, and so does the scheduling.       *)
(***************************************************************************)
MockDns == {DnsOk(<<"v4">>)}

MockAnswers == [pc \in HttpPcs |-> {HttpOk(200, HeadersNone)}]

MockTexts == {TextOk(BodyPlain)}

InitMock ==
    \E hosts \in SeqsUpTo(HostLines, MaxHosts), concurrency \in 1..MaxConc,
       threads \in 1..MaxThreads, flags \in {FlagsOff, StatusOnly} :
        Started(Config(hosts, concurrency, threads, DefaultRate, Ports80,
                       EmptyStr, EmptyStr, EmptyStr, flags))

NextMock ==
    \/ MainSpawn
    \/ MainJoin
    \/ MainReturn
    \/ MainExit
    \/ ProdStart
    \/ ProdSend
    \/ ProdCancel
    \/ \E s \in Slots : TaskStart(s)
    \/ \E s \in Slots : TaskRecv(s)
    \/ \E s \in Slots : TaskExit(s)
    \/ \E s \in Slots : DnsReturn(s, MockDns)
    \/ \E s \in Slots : HttpReturn(s, MockAnswers)
    \/ \E s \in Slots : TextReturn(s, MockTexts)

SpecMock == InitMock /\ [][NextMock]_vars

\* The text of a printed line, without the note of who printed it.
TextOf(l) ==
    [url |-> l.url, title |-> l.title, status |-> l.status, style |-> l.style,
     tech |-> l.tech, content_type |-> l.content_type,
     content_length |-> l.content_length, server |-> l.server]

\* The places in the output of the lines of one job.
PlacesOf(j) ==
    {p \in Slots \X (1..(2 * MaxHosts)) :
        p[2] \in DOMAIN out[p[1]] /\ out[p[1]][p[2]].src.job = j}

\* What these answers make of one host line: one line for the one
\* candidate of a host that resolves, nothing for a blank line.
LinesExpected(host) ==
    IF host = EmptyStr THEN {}
    ELSE {[url |-> <<"http://">> \o host \o <<":">> \o cfg.ports,
           title |-> EmptyStr,
           status |-> IF cfg.status_codes THEN <<"[", 200, "]">> ELSE EmptyStr,
           style |-> IF cfg.status_codes THEN "green" ELSE "white",
           tech |-> EmptyStr, content_type |-> EmptyStr,
           content_length |-> EmptyStr, server |-> EmptyStr]}

\* C15: when the run is over, the lines printed are, job by job, the lines
\* the answers determine for the job's host, each printed once, whichever
\* tasks ran and however they were scheduled.
C15_SameLinesEveryRun ==
    MainPastJoin =>
        \A j \in DOMAIN cfg.hosts :
            /\ Cardinality(PlacesOf(j)) = Cardinality(LinesExpected(cfg.hosts[j]))
            /\ \A p \in PlacesOf(j) :
                  TextOf(out[p[1]][p[2]]) \in LinesExpected(cfg.hosts[j])

(***************************************************************************)
(* The jobs send_url puts on the queue.                                    *)
(***************************************************************************)
\* The jobs that are on the queue or in the hands of a task.
JobsAbout ==
    {queue[i] : i \in DOMAIN queue}
        \cup {task[s].job : s \in {x \in Slots : task[x].job.id # 0}}

\* The host lines of the jobs sent, in the order sent.
HostsSent == [i \in DOMAIN sentLog |-> cfg.hosts[sentLog[i]]]

\* C16: the hosts of the jobs sent are the input lines in input order, one
\* job per line and blank lines included: a prefix of them while send_url
\* runs and all of them when it is over; every job holds the options of
\* the run.
C16_OneJobPerLine ==
    /\ sentLog = [i \in DOMAIN sentLog |-> i]
    /\ IsPrefix(HostsSent, cfg.hosts)
    /\ \A job \in JobsAbout : job = MakeJob(job.id, cfg.hosts[job.id], cfg)
    /\ (SenderDropped \/ mainPc = "exited") => HostsSent = cfg.hosts

(***************************************************************************)
(* Technology detection: one host with two candidates, one task, the tech  *)
(* flag on or off, scans that fail, find nothing, or find something.       *)
(***************************************************************************)
TechOnly == Flags(FALSE, TRUE, FALSE, FALSE, FALSE, FALSE)

InitTech ==
    \E path \in Paths, flags \in {FlagsOff, TechOnly} :
        Started(Config(<<ExampleHost>>, 1, 1, DefaultRate, PortsDefault, path,
                       EmptyStr, EmptyStr, flags))

NextTech ==
    \/ MainSpawn
    \/ MainJoin
    \/ MainReturn
    \/ MainExit
    \/ ProdStart
    \/ ProdSend
    \/ ProdCancel
    \/ \E s \in Slots : TaskStart(s)
    \/ \E s \in Slots : TaskRecv(s)
    \/ \E s \in Slots : TaskExit(s)
    \/ \E s \in Slots : DnsReturn(s, FewDnsAnswers)
    \/ \E s \in Slots : HttpReturn(s, FewAnswers)
    \/ \E s \in Slots : TextReturn(s, FewTexts)
    \/ \E s \in Slots : ScanReturn(s)

SpecTech == InitTech /\ [][NextTech]_vars

ScanFailed(e) == e.kind = "scan" /\ e.done /\ ~e.answer.ok

\* Every candidate of the job that resolved has had a request.
AllCandidatesProbed(s, job) ==
    \A k \in DOMAIN lookups[s] :
        (lookups[s][k].job = job /\ Resolved(lookups[s][k]))
        => \E j \in DOMAIN reqs[s] :
              /\ reqs[s][j].job = job
              /\ IsPrefix(CandidateOf(lookups[s][k]), reqs[s][j].url)

\* C17: a scan is made only with the tech flag set; when a scan fails the
\* entry gets no line and no further request, the task goes on to the
\* other candidates of the job, and it returns only on the closed, drained
\* queue.
C17_ScanOnlyOnFlagAndErrorDrops ==
    \A s \in Slots : \A i \in DOMAIN reqs[s] :
        LET e == reqs[s][i]
        IN  /\ e.kind = "scan" => cfg.display_tech
            /\ ScanFailed(e)
                 => /\ LinesOf(s, e.job, e.di) = {}
                    /\ \A j \in EntriesOf(s, e.job, e.di) : j <= i
                    /\ JobOver(s, e.job) => AllCandidatesProbed(s, e.job)
                    /\ task[s].pc = "done" => (SenderDropped /\ queue = << >>)

\* The scan of the first candidate failed, the second candidate was
\* scanned and got its line with the technologies found.
C17_Witness ==
    \E s \in Slots : \E i \in DOMAIN reqs[s] : \E k \in DOMAIN out[s] :
        /\ ScanFailed(reqs[s][i])
        /\ out[s][k].src.job = reqs[s][i].job
        /\ out[s][k].src.di > reqs[s][i].di
        /\ out[s][k].tech = <<"[", "PHP", ",", "nginx", "]">>
        /\ task[s].pc = "done"

Skipped(s) == s <= spawnI /\ ~Spawned(s)

\* C19: when a slot found no free port, main neither panics nor leaves the
\* loop: it is past the join only after the loop went through every slot,
\* and then every job sent was received and no task is left with a job.
C19_SkippedSlotOnly ==
    (\E s \in Slots : Skipped(s)) =>
        /\ mainPc # "panicked"
        /\ MainPastJoin =>
              /\ spawnI = cfg.concurrency
              /\ queue = << >>
              /\ SentIds \subseteq ReceivedIds
              /\ \A s \in Slots : task[s].pc \in {"unspawned", "done"}

\* The places a task that holds a job is suspended at.
AwaitPcs == {"dns", "text", "scan"} \cup HttpPcs

\* The tasks that sit in rx.recv() with no job to take and the Sender alive.
IdleWaiting ==
    {s \in Slots : task[s].pc = "recv" /\ queue = << >> /\ ~is_disconnected}

\* C20: with more tasks than threads, the tasks that wait for a job do not
\* hold every thread while a task that holds a job is suspended at an
\* await: there is a thread to resume it on when its answer is there.
C20_NoThreadHeldWhileWaiting ==
    cfg.concurrency > cfg.threads =>
        \A s \in Slots :
            task[s].pc \in AwaitPcs => Cardinality(IdleWaiting) < cfg.threads

(***************************************************************************)
(* The order of the work on one job.                                       *)
(***************************************************************************)
\* The lookups a task made for one job, as (scheme, port) pairs in order.
RECURSIVE AttemptsFor(_, _)
AttemptsFor(ls, job) ==
    IF ls = << >> THEN << >>
    ELSE (IF Head(ls).job = job
          THEN << <<Head(ls).schema, Head(ls).port>> >>
          ELSE << >>) \o AttemptsFor(Tail(ls), job)

\* C21: the lookups of a job are made port by port in the order listed; a
\* request of the job is there only when all of them have returned; the
\* requests are those of the task that received the job, entry after entry
\* of resolved_domains, and only the last one can be without its answer.
C21_ResolveThenProbeInOrder ==
    \A s \in Slots :
        LET want == ExpectedAttempts(Split(cfg.ports))
        IN  /\ \A k \in DOMAIN lookups[s] :
                  IsPrefix(AttemptsFor(lookups[s], lookups[s][k].job), want)
            /\ \A i \in DOMAIN reqs[s] :
                  LET e == reqs[s][i]
                  IN  /\ AttemptsFor(lookups[s], e.job) = want
                      /\ ~(task[s].pc = "dns" /\ task[s].job.id = e.job)
                      /\ e.w = s
                      /\ \E k \in DOMAIN recvLog : recvLog[k] = [w |-> s, job |-> e.job]
                      /\ i < Len(reqs[s]) => e.done
                      /\ \A j \in DOMAIN reqs[s] :
                            (j < i /\ reqs[s][j].job = e.job) => reqs[s][j].di <= e.di
                      /\ task[s].job.id = e.job
                           => IsPrefix(task[s].resolved_domains[e.di], e.url)

\* The ports "80,8443" gave three lookups, the candidates of the first and
\* of the last one were probed in that order, and the job is done.
C21_Witness ==
    \E s \in Slots : \E i, j \in DOMAIN reqs[s] :
        /\ cfg.ports = <<"8", "0", ",", "8", "4", "4", "3">>
        /\ Len(lookups[s]) = 3
        /\ i < j
        /\ reqs[s][i].di = 2
        /\ reqs[s][j].di = 4
        /\ task[s].pc = "done"

(***************************************************************************)
(* The fields of a printed line.                                           *)
(***************************************************************************)
\* The answer logged for one request of the entry a line is about.
AnswerOf(s, l, kind) ==
    LET i == CHOOSE i \in EntriesOf(s, l.src.job, l.src.di) : reqs[s][i].kind = kind
    IN  reqs[s][i].answer

\* C22: with the server (content-type) flag set, a line whose Server
\* (Content-Type) request was answered with a non-empty header value has
\* that value in its server (content-type) field, with or without a path.
C22_HeaderFieldsVerbatim ==
    \A s \in Slots : \A k \in DOMAIN out[s] :
        LET l == out[s][k]
        IN  /\ cfg.server =>
                 LET h == HeaderGet(AnswerOf(s, l, "get_server").headers, "server")
                 IN  (h.present /\ h.value # EmptyStr)
                        => IsSubstring(h.value, l.server)
            /\ cfg.content_type =>
                 LET h == HeaderGet(AnswerOf(s, l, "get_ct").headers, "content-type")
                 IN  (h.present /\ h.value # EmptyStr)
                        => IsSubstring(h.value, l.content_type)

\* The body gate of lines 653-657 and 688-692 lets the entry through.
PassesBodyGate(s, l) ==
    \/ cfg.body_regex = EmptyStr
    \/ /\ RegexCompiles(cfg.body_regex)
       /\ RegexIsMatch(cfg.body_regex, AnswerOf(s, l, "text").body)

\* C23: a line is the seven strings URL, title, status, technologies,
\* content-type, content-length, server in this order; each of the last six
\* is empty when its flag is off, and is otherwise what the answers of the
\* entry give whatever the status flag is; with status reporting off every
\* entry that came through has its one line.
C23_SevenFieldsInOrder ==
    \A s \in Slots :
        /\ \A k \in DOMAIN out[s] :
              LET l == out[s][k]
                  f == Format(l)
              IN  /\ Len(f) = 7
                  /\ \A i \in EntriesOf(s, l.src.job, l.src.di) : f[1] = reqs[s][i].url
                  /\ f[2] = IF cfg.display_title
                            THEN FirstNonEmpty(TitleCaptures(AnswerOf(s, l, "text").body))
                            ELSE EmptyStr
                  /\ f[3] = IF cfg.status_codes
                            THEN <<"[", AnswerOf(s, l, "get_response").status, "]">>
                            ELSE EmptyStr
                  /\ f[4] = IF cfg.display_tech
                            THEN TechStr(AnswerOf(s, l, "scan").techs)
                            ELSE EmptyStr
                  /\ ~cfg.content_type => f[5] = EmptyStr
                  /\ cfg.content_type => f[5] \in {EmptyStr, <<"[">> \o HeaderGet(AnswerOf(s, l, "get_ct").headers, "content-type").value \o <<"]">>}
                  /\ f[6] = IF cfg.content_length
                            THEN <<"[">> \o ContentLengthOf(AnswerOf(s, l, "get_cl")).value \o <<"]">>
                            ELSE EmptyStr
                  /\ ~cfg.server => f[7] = EmptyStr
        /\ \A i \in DOMAIN reqs[s] :
              LET e == reqs[s][i]
              IN  (/\ ~cfg.status_codes
                   /\ e.kind = "text"
                   /\ EntryOver(s, e.job, e.di)
                   /\ EntrySucceeded(s, e.job, e.di)
                   /\ cfg.body_regex # EmptyStr
                        => /\ RegexCompiles(cfg.body_regex)
                           /\ RegexIsMatch(cfg.body_regex, e.answer.body))
                  => Cardinality(LinesOf(s, e.job, e.di)) = 1

\* With the title flag alone, a line was printed with a title and with the
\* five other fields empty.
C23_Witness ==
    \E s \in Slots : \E k \in DOMAIN out[s] :
        /\ cfg.display_title
        /\ ~cfg.status_codes
        /\ Format(out[s][k])[2] = <<"[", "Example", "]">>
        /\ \A i \in 3..7 : Format(out[s][k])[i] = EmptyStr

\* C24: with the title flag set the title of a line is the capture of the
\* first match of <title>(.*)</title> in the body (in brackets), and it is
\* empty when there is no match or when that first capture is empty.
C24_TitleOfFirstMatch ==
    \A s \in Slots : \A k \in DOMAIN out[s] :
        LET l == out[s][k]
            caps == TitleCaptures(AnswerOf(s, l, "text").body)
        IN  cfg.display_title
            => l.title = IF caps = << >> \/ Head(caps) = EmptyStr
                         THEN EmptyStr
                         ELSE <<"[">> \o Head(caps) \o <<"]">>

\* C25: no line is printed for an entry on which a pattern that does not
\* compile was applied: the body regex on the body, the header regex (when
\* not empty) on the headers of the response.
C25_MalformedPatternAbandons ==
    \A s \in Slots : \A k \in DOMAIN out[s] :
        LET l == out[s][k]
        IN  /\ RegexCompiles(cfg.body_regex)
            /\ (cfg.header_regex # EmptyStr
                  /\ RespHeaders(s, l.src.job, l.src.di) # << >>)
               => RegexCompiles(cfg.header_regex)

\* A step of an entry that made the code leave the entry: an await that
\* returned an error, a path probe answered 404 or 400, a header that is
\* not text, a body pattern that does not compile.
StepFailed(e) ==
    /\ e.done
    /\ \/ ~e.answer.ok
       \/ e.kind = "path_probe" /\ e.answer.status \in {404, 400}
       \/ e.kind = "get_ct" /\ ~Decodable(e, "content-type")
       \/ e.kind = "get_server" /\ ~Decodable(e, "server")
       \/ e.kind = "text" /\ ~RegexCompiles(cfg.body_regex)

\* C26: a failed step is the last thing logged for its entry, and no line
\* is printed for the entry; every entry gets each of its requests at most
\* once, and the entries of a job are taken in order, none twice.
C26_NoRetry ==
    \A s \in Slots : \A i \in DOMAIN reqs[s] :
        LET e == reqs[s][i]
        IN  /\ StepFailed(e) =>
                /\ \A j \in EntriesOf(s, e.job, e.di) : j <= i
                /\ LinesOf(s, e.job, e.di) = {}
            /\ \A j \in EntriesOf(s, e.job, e.di) :
                  reqs[s][j].kind = e.kind => j = i
            /\ \A j \in DOMAIN reqs[s] :
                  (j < i /\ reqs[s][j].job = e.job) => reqs[s][j].di <= e.di

\* A request of an entry failed, and the task has finished the job.
C26_Witness ==
    \E s \in Slots : \E i \in DOMAIN reqs[s] :
        /\ reqs[s][i].kind = "get_resp"
        /\ reqs[s][i].done
        /\ ~reqs[s][i].answer.ok
        /\ task[s].pc = "done"

(***************************************************************************)
(* A send that the queue refuses.                                          *)
(***************************************************************************)
\* C27: a refused send is reported on standard error and leaves send_url in
\* its loop when hosts remain; send_url returns only when a send was tried
\* for every host, and it goes away early only by the shutdown of main.
C27_SendErrorDoesNotStop ==
    /\ [](prodPc = "done" => Len(sentLog) + Len(errLog) = Len(cfg.hosts))
    /\ [][/\ errLog' # errLog =>
                /\ errLog' = Append(errLog, prodI')
                /\ prodI' = prodI + 1
                /\ sentLog' = sentLog
                /\ prodPc' = IF prodI' < Len(cfg.hosts) THEN "loop" ELSE "done"
          /\ (prodPc = "loop" /\ prodPc' \notin {"loop", "done"}) =>
                /\ prodPc' = "cancelled"
                /\ mainPc \in {"shutdown", "dropped"}]_vars

\* Two sends were refused one after the other and send_url returned.
C27_Witness ==
    /\ errLog = <<1, 2>>
    /\ prodPc = "done"

\* C28: the status shown on a line is the status of the response whose
\* headers the header regex read and whose body gave the title and was
\* tested by the body regex (the response kept as `resp`).
C28_StatusOfTheProbedResponse ==
    \A s \in Slots : \A k \in DOMAIN out[s] :
        LET l == out[s][k]
        IN  cfg.status_codes
            => l.status = <<"[", AnswerOf(s, l, "get_resp").status, "]">>

(***************************************************************************)
(* The two runtimes: rt, built with --workers threads, runs send_url       *)
(* (line 293); task::spawn (line 323) puts the run_detector tasks on the   *)
(* runtime main runs on.                                                   *)
(***************************************************************************)
InitPool ==
    \E hosts \in SeqsUpTo({ExampleHost}, MaxHosts), threads \in 1..MaxThreads,
       workers \in 1..MaxThreads :
        Started([Config(hosts, MaxConc, threads, DefaultRate, Ports80,
                        EmptyStr, EmptyStr, EmptyStr, FlagsOff)
                    EXCEPT !.workers = workers])

SpecPool == InitPool /\ [][Next]_vars

\* C29: the run_detector tasks run on the threads of the pool built with
\* --workers: at no time do more of them hold a thread than that value.
C29_TasksOnWorkersPool ==
    Cardinality(Blocked) <= cfg.workers

(***************************************************************************)
(* Reading standard input (lines 272-282), then the pipeline.              *)
(***************************************************************************)
InitRead ==
    \E input \in SeqsUpTo(InputLines, MaxHosts), concurrency \in 0..MaxConc,
       threads \in 1..MaxThreads :
        AtRead(Config(<< >>, concurrency, threads, DefaultRate, Ports80,
                      EmptyStr, EmptyStr, EmptyStr, FlagsOff), input)

NextRead ==
    \/ MainRead
    \/ MainSetup
    \/ Next

SpecRead == InitRead /\ [][NextRead]_vars

\* The jobs that exist: in the queue, or held by a task.
JobsAlive ==
    {queue[i] : i \in DOMAIN queue}
        \cup {task[s].job : s \in {x \in Slots : task[x].job # NoJob}}

\* C30: when send_url or a task is spawned, or a job sent, every line of
\* standard input has been collected; the host of job i is line i, or ""
\* when reading line i failed.
C30_ReadToEofFirst ==
    /\ (\/ prodPc # "unspawned"
        \/ spawnI > 0
        \/ \E s \in Slots : Spawned(s)
        \/ sentLog # << >>
        \/ errLog # << >>
        \/ queue # << >>)
       => /\ mainPc # "read"
          /\ Len(cfg.hosts) = Len(cfg.stdin)
    /\ \A i \in DOMAIN cfg.hosts :
          cfg.hosts[i] = IF cfg.stdin[i].ok THEN cfg.stdin[i].line ELSE EmptyStr
    /\ \A j \in JobsAlive :
          /\ j.id \in DOMAIN cfg.stdin
          /\ j.host = IF cfg.stdin[j.id].ok THEN cfg.stdin[j.id].line ELSE EmptyStr
    /\ \A k \in DOMAIN sentLog : sentLog[k] \in DOMAIN cfg.stdin

\* The first of two lines could not be read; a task holds the job made of
\* it, with an empty host, and the job of the second line is in the queue.
C30_Witness ==
    /\ cfg.stdin = <<ReadErr, ReadOk(ExampleHost)>>
    /\ \E s \in Slots : task[s].job.id = 1 /\ task[s].job.host = EmptyStr
    /\ \E i \in DOMAIN queue : queue[i].id = 2 /\ queue[i].host = ExampleHost

(***************************************************************************)
(* Where the requests and the lines of a job point to.                     *)
(***************************************************************************)
\* The URL begins with scheme://host:port of a lookup of the job that
\* succeeded with an IPv4 address.
FromResolvedCandidate(s, job, url) ==
    \E k \in DOMAIN lookups[s] :
        /\ lookups[s][k].job = job
        /\ Resolved(lookups[s][k])
        /\ IsPrefix(CandidateOf(lookups[s][k]), url)

\* C31: every request sent for a job and every line printed for it has a
\* URL that begins with a candidate of a successful IPv4 lookup of the job;
\* the first, empty entry of resolved_domains and the entries of failed or
\* IPv4-less lookups get no request and no line, with or without a path.
C31_OnlyResolvedCandidatesProbed ==
    \A s \in Slots :
        /\ \A i \in DOMAIN reqs[s] :
              FromResolvedCandidate(s, reqs[s][i].job, reqs[s][i].url)
        /\ \A k \in DOMAIN out[s] :
              FromResolvedCandidate(s, out[s][k].src.job, out[s][k].url)
        /\ \A i \in DOMAIN reqs[s] : reqs[s][i].di # 1

=============================================================================
